---- MODULE Spec2Model ----
(***************************************************************************)
(* serde-crypt (src/lib.rs): field-level authenticated encryption behind   *)
(* serde's `with` hooks.  The model covers the key store (MASTER_KEY and   *)
(* its mutex), the sealing engine (prepare_key, encrypt, decrypt, the      *)
(* single-use INonceSequence), the token framing of e / d and the nested   *)
(* calls that serde_json makes for sealed fields inside a sealed value.    *)
(*                                                                         *)
(* Bytes are integers 0..255 and texts are sequences of bytes.  The        *)
(* foreign primitives are modelled by what they do at the byte level:      *)
(* base64 is the real URL-safe unpadded transcoding (strict about trailing *)
(* bits, as the crate's default); SHA-256 and AES-256-GCM are small        *)
(* stand-ins with the same shape (a 32-byte digest, a counter-mode XOR     *)
(* keystream, a 16-byte polynomial tag over nonce and ciphertext).         *)
(***************************************************************************)
EXTENDS Integers, Sequences, FiniteSets, TLC

\* ------------------------------------------------------------------ bounds
NumThreads == 2
\* Top-level calls per run of Spec ...
MaxSetups == 2
MaxSeals == 1
MaxUnseals == 1
\* ... of SpecSeals (the key is installed beforehand) ...
SealsSeals == 2
SealsUnseals == 1
\* ... and of SpecTamper (the key is installed beforehand).
TamperSeals == 1
TamperUnseals == 1
\* Bound keys, and uses of each, in SpecNonce.
MaxBound == 2
MaxAdvance == 2

\* ------------------------------------------------------- program constants
NONCE_LEN == 12
TAG_LEN == 16
SHA256_OUTPUT_LEN == 32

\* ------------------------------------------------------------------ bytes
Min(a, b) == IF a < b THEN a ELSE b

Pow2(n) == CASE n = 0 -> 1 [] n = 1 -> 2 [] n = 2 -> 4 [] n = 3 -> 8
             [] n = 4 -> 16 [] n = 5 -> 32 [] n = 6 -> 64 [] n = 7 -> 128
             [] n = 8 -> 256 [] n = 9 -> 512 [] n = 10 -> 1024
             [] n = 11 -> 2048 [] n = 12 -> 4096

RECURSIVE XorN(_, _, _)
XorN(a, b, n) ==
    IF n = 0 THEN 0
    ELSE (((a % 2) + (b % 2)) % 2) + 2 * XorN(a \div 2, b \div 2, n - 1)

Xor8(a, b) == XorN(a, b, 8)

Take(s, n) == SubSeq(s, 1, Min(n, Len(s)))
Drop(s, n) == SubSeq(s, n + 1, Len(s))

\* The first position at or after i where s holds byte c (Len(s)+1 if none).
IndexFrom(s, c, i) ==
    LET hits == {j \in i..Len(s) : s[j] = c}
    IN  IF hits = {} THEN Len(s) + 1
        ELSE CHOOSE j \in hits : \A k \in hits : j <= k

\* The sum of s[i] * w(i) over lo..hi modulo the prime 251, by halves; the
\* weights w(i) = ((a + 7i) mod 250) + 1 are never 0 modulo 251.
RECURSIVE WSum(_, _, _, _)
WSum(s, a, lo, hi) ==
    IF lo > hi THEN 0
    ELSE IF lo = hi THEN (s[lo] * (((a + 7 * lo) % 250) + 1)) % 251
    ELSE LET mid == (lo + hi) \div 2
         IN  (WSum(s, a, lo, mid) + WSum(s, a, mid + 1, hi)) % 251

\* ----------------------------------------------------------------- base64
\* general_purpose::URL_SAFE_NO_PAD: alphabet A-Z a-z 0-9 - _, no padding on
\* encode, padding refused on decode, non-zero trailing bits refused.
B64Char(i) ==
    IF i < 26 THEN 65 + i
    ELSE IF i < 52 THEN 97 + (i - 26)
    ELSE IF i < 62 THEN 48 + (i - 52)
    ELSE IF i = 62 THEN 45 ELSE 95

B64Value(c) ==
    IF c >= 65 /\ c <= 90 THEN c - 65
    ELSE IF c >= 97 /\ c <= 122 THEN c - 97 + 26
    ELSE IF c >= 48 /\ c <= 57 THEN c - 48 + 52
    ELSE IF c = 45 THEN 62
    ELSE IF c = 95 THEN 63
    ELSE -1

Base64Encode(bytes) ==
    LET n == Len(bytes)
        m == (8 * n + 5) \div 6
        At(j) == IF j <= n THEN bytes[j] ELSE 0
        Sextet(k) ==
            LET off == (k - 1) * 6
                j == off \div 8 + 1
                r == off % 8
                w == At(j) * 256 + At(j + 1)
            IN  (w \div Pow2(10 - r)) % 64
    IN  [k \in 1..m |-> B64Char(Sextet(k))]

\* Fault variant: a decoder that accepts any trailing bits
TrailingBitsAllowed(text) == TRUE

\* Trailing bits of the last symbol that encode no byte must be zero.
TrailingBitsOk(text) ==
    LET n == Len(text)
        left == 6 * n - 8 * ((6 * n) \div 8)
    IN  n = 0 \/ B64Value(text[n]) % Pow2(left) = 0

Base64Decode(text) ==
    LET n == Len(text)
        m == (6 * n) \div 8
        V(j) == IF j <= n THEN B64Value(text[j]) ELSE 0
        Byte(i) ==
            LET off == (i - 1) * 8
                j == off \div 6 + 1
                r == off % 6
                w == V(j) * 64 + V(j + 1)
            IN  (w \div Pow2(4 - r)) % 256
    IN  IF n % 4 = 1 THEN [ok |-> FALSE, bytes |-> <<>>]
        ELSE IF \E j \in 1..n : B64Value(text[j]) < 0
            THEN [ok |-> FALSE, bytes |-> <<>>]
        ELSE IF ~TrailingBitsOk(text) THEN [ok |-> FALSE, bytes |-> <<>>]
        ELSE [ok |-> TRUE, bytes |-> [i \in 1..m |-> Byte(i)]]

\* ---------------------------------------------------------------- SHA-256
\* digest(&digest::SHA256, key): a stand-in that absorbs every byte and the
\* length and squeezes 32 bytes.
Sha256(key) ==
    LET h == (106 + 9 * Len(key) + WSum(key, 33, 1, Len(key))) % 251
    IN  [i \in 1..SHA256_OUTPUT_LEN |-> (h * (2 * i - 1) + 7 * (i - 1)) % 256]

\* ------------------------------------------------------------ AES-256-GCM
\* A stand-in: a counter-mode keystream seeded by key and nonce, XORed on;
\* the tag spreads two weighted sums modulo the prime 251 (over nonce,
\* ciphertext and length, the weights drawn from the key) and the key over
\* sixteen bytes.
KeyStream(seed, i) == (seed * (i + 1) + 17 * i) % 256

GcmCrypt(dk, nonce, bytes) ==
    LET seed == (7 * dk[1] + dk[2] + WSum(nonce, dk[3], 1, Len(nonce))) % 251
    IN  [i \in 1..Len(bytes) |-> Xor8(bytes[i], KeyStream(seed, i))]

GcmTag(dk, nonce, ct) ==
    LET msg == nonce \o ct \o <<Len(ct) % 256>>
        p1 == WSum(msg, dk[4], 1, Len(msg))
        p2 == WSum(msg, dk[5] + 97, 1, Len(msg))
    IN  [j \in 1..TAG_LEN |-> (p1 * j + p2 + dk[j] + dk[j + TAG_LEN]) % 251]

\* ring's AES_256_GCM.seal: encrypt in place, append the tag.
GcmSeal(dk, nonce, data) ==
    LET ct == GcmCrypt(dk, nonce, data)
        tag == GcmTag(dk, nonce, ct)
    IN  [i \in 1..(Len(ct) + TAG_LEN) |->
            IF i <= Len(ct) THEN ct[i] ELSE tag[i - Len(ct)]]

\* Whether the last TAG_LEN bytes of `data` are the tag of what precedes them.
TagMatches(dk, nonce, data) ==
    LET n == Len(data) - TAG_LEN
    IN  SubSeq(data, n + 1, Len(data)) = GcmTag(dk, nonce, SubSeq(data, 1, n))

\* ring's AES_256_GCM.open: refuse an input shorter than a tag, verify the
\* tag, decrypt in place (the buffer keeps its length; the tag bytes stay).
Unspecified == <<"Unspecified">>

GcmOpen(dk, nonce, data) ==
    IF Len(data) < TAG_LEN THEN [ok |-> FALSE, err |-> Unspecified, data |-> data]
    ELSE IF ~TagMatches(dk, nonce, data)
        THEN [ok |-> FALSE, err |-> Unspecified, data |-> data]
    ELSE LET n == Len(data) - TAG_LEN
         IN  [ok |-> TRUE, err |-> <<>>,
              data |-> GcmCrypt(dk, nonce, SubSeq(data, 1, n))
                         \o SubSeq(data, n + 1, Len(data))]

\* --------------------------------------------------------- INonceSequence
\* struct INonceSequence(Option<Nonce>): <<n>> is Some(n), <<>> is None.
INonceSequence_new(nonce) == <<nonce>>

\* Fault variant: an advance that leaves the nonce in place
advance_keep(seq) ==
    IF seq # <<>> THEN [ok |-> TRUE, nonce |-> seq[1], seq |-> seq]
    ELSE [ok |-> FALSE, nonce |-> <<>>, seq |-> <<>>]

\* self.0.take().ok_or(error::Unspecified)
advance(seq) ==
    IF seq # <<>> THEN [ok |-> TRUE, nonce |-> seq[1], seq |-> <<>>]
    ELSE [ok |-> FALSE, nonce |-> <<>>, seq |-> <<>>]

\* Fault variant: a key derived from nothing
prepare_key_fixed(key, nonce) ==
    [key |-> Sha256(<<>>), seq |-> INonceSequence_new(nonce)]

\* prepare_key: digest the master key, bind the nonce in a single-use
\* sequence.
prepare_key(key, nonce) ==
    [key |-> Sha256(key), seq |-> INonceSequence_new(nonce)]

\* SealingKey::seal_in_place_append_tag: the nonce comes from the sequence.
seal_in_place_append_tag(bk, data) ==
    LET a == advance(bk.seq)
    IN  IF ~a.ok THEN [ok |-> FALSE, err |-> Unspecified, data |-> data,
                       bk |-> [bk EXCEPT !.seq = a.seq]]
        ELSE [ok |-> TRUE, err |-> <<>>, data |-> GcmSeal(bk.key, a.nonce, data),
              bk |-> [bk EXCEPT !.seq = a.seq]]

\* OpeningKey::open_in_place: the nonce comes from the sequence.
open_in_place(bk, data) ==
    LET a == advance(bk.seq)
    IN  IF ~a.ok THEN [ok |-> FALSE, err |-> Unspecified, data |-> data,
                       bk |-> [bk EXCEPT !.seq = a.seq]]
        ELSE LET r == GcmOpen(bk.key, a.nonce, data)
             IN  [ok |-> r.ok, err |-> r.err, data |-> r.data,
                  bk |-> [bk EXCEPT !.seq = a.seq]]

\* fn encrypt, between taking the lock and returning: `key` is the guarded
\* master key as the call reads it.
encrypt(data, nonce, key) ==
    LET r == seal_in_place_append_tag(prepare_key(key, nonce), data)
    IN  IF r.ok THEN [ok |-> TRUE, err |-> <<>>, data |-> r.data]
        ELSE [ok |-> FALSE, err |-> <<"EncryptionError">> \o r.err, data |-> <<>>]

\* Fault variant: a decrypt that returns the tag with the plaintext
decrypt_untrimmed(data, nonce, key) ==
    LET r == open_in_place(prepare_key(key, nonce), data)
    IN  IF r.ok THEN [ok |-> TRUE, err |-> <<>>, data |-> r.data]
        ELSE [ok |-> FALSE, err |-> <<"DecryptionError">> \o r.err, data |-> <<>>]

\* Fault variant: a decrypt that tells a short input from a bad tag
decrypt_detailed(data, nonce, key) ==
    LET r == open_in_place(prepare_key(key, nonce), data)
    IN  IF r.ok THEN [ok |-> TRUE, err |-> <<>>,
                      data |-> SubSeq(r.data, 1, Len(r.data) - TAG_LEN)]
        ELSE [ok |-> FALSE, data |-> <<>>,
              err |-> IF Len(data) < TAG_LEN THEN <<"DecryptionError", "TooShort">>
                      ELSE <<"DecryptionError", "BadTag">>]

\* fn decrypt, between taking the lock and returning.
decrypt(data, nonce, key) ==
    LET r == open_in_place(prepare_key(key, nonce), data)
    IN  IF r.ok THEN [ok |-> TRUE, err |-> <<>>,
                      data |-> SubSeq(r.data, 1, Len(r.data) - TAG_LEN)]
        ELSE [ok |-> FALSE, err |-> <<"DecryptionError">> \o r.err, data |-> <<>>]

\* ------------------------------------------------------------------ values
\* The values the callers seal: a String, or a struct
\*     struct Rec { #[serde(with = "crate")] f: String, p: String }
\* whose field f is itself sealed (test::Test holds test::Other this way).
\* A String record keeps its text in f.
Str(s) == [ty |-> "Str", f |-> s, p |-> <<>>]
Rec(f, p) == [ty |-> "Rec", f |-> f, p |-> p]

Types == {"Str", "Rec"}
Values == {Str(<<97>>), Rec(<<97>>, <<98>>)}

\* ------------------------------------------------------- serde_json text
\* The texts of the model hold no quote, backslash or control character, so
\* a JSON string is its text between two quotes (34).
JsonString(s) == <<34>> \o s \o <<34>>

FieldF == <<123, 34, 102, 34, 58>>      \* {"f":
FieldP == <<44, 34, 112, 34, 58>>       \* ,"p":

\* serde_json::to_string(&source); `sealed` is the token that serialize()
\* returned for the sealed field of a Rec.
to_string(v, sealed) ==
    IF v.ty = "Str" THEN JsonString(v.f)
    ELSE FieldF \o JsonString(sealed) \o FieldP \o JsonString(v.p) \o <<125>>

\* std::str::from_utf8: ASCII, or a lead byte followed by the continuation
\* bytes it announces.
IsUtf8(b) ==
    LET Cont(j) == j >= 1 /\ j <= Len(b) /\ b[j] >= 128 /\ b[j] <= 191
        Follows(j) == IF j < 1 \/ j > Len(b) THEN 0
                      ELSE IF b[j] >= 194 /\ b[j] <= 223 THEN 1
                      ELSE IF b[j] >= 224 /\ b[j] <= 239 THEN 2
                      ELSE IF b[j] >= 240 /\ b[j] <= 244 THEN 3
                      ELSE 0
    IN  \A i \in 1..Len(b) :
            IF b[i] < 128 THEN TRUE
            ELSE IF Cont(i)
            THEN \E k \in 1..3 : /\ Follows(i - k) >= k
                                 /\ \A j \in (i - k + 1)..(i - 1) : Cont(j)
            ELSE /\ Follows(i) > 0
                 /\ \A j \in (i + 1)..(i + Follows(i)) : Cont(j)

\* serde_json::from_str::<String>: one string literal and nothing after it.
ParseString(text) ==
    IF Len(text) >= 2 /\ text[1] = 34 /\ IndexFrom(text, 34, 2) = Len(text)
    THEN [ok |-> TRUE, s |-> SubSeq(text, 2, Len(text) - 1)]
    ELSE [ok |-> FALSE, s |-> <<>>]

\* serde_json::from_str::<Rec>, the syntax: the string of field f (a token,
\* still sealed) and the string of field p.
ParseRec(text) ==
    LET q1 == IndexFrom(text, 34, 7)
        rest == Drop(text, q1)
        q2 == IndexFrom(rest, 34, 7)
    IN  IF Take(text, 6) = FieldF \o <<34>> /\ q1 <= Len(text)
           /\ Take(rest, 6) = FieldP \o <<34>> /\ q2 <= Len(rest)
           /\ Drop(rest, q2) = <<125>>
        THEN [ok |-> TRUE, f |-> SubSeq(text, 7, q1 - 1), p |-> SubSeq(rest, 7, q2 - 1)]
        ELSE [ok |-> FALSE, f |-> <<>>, p |-> <<>>]

\* ------------------------------------------------------------ token frame
\* Fault variant: a token without its nonce
EncodeToken_no_nonce(nonce, encrypted) == Base64Encode(encrypted)

\* e, lines 76-78: nonce bytes, then ciphertext and tag, base64url unpadded.
EncodeToken(nonce, encrypted) == Base64Encode(nonce \o encrypted)

\* d, lines 82-84: decode; decoded[..NONCE_LEN] panics on fewer than
\* NONCE_LEN bytes (slice index out of range).
DecodeToken(source) ==
    LET dec == Base64Decode(source)
    IN  IF ~dec.ok
        THEN [panic |-> FALSE, ok |-> FALSE, nonce |-> <<>>, data |-> <<>>]
        ELSE IF Len(dec.bytes) < NONCE_LEN
        THEN [panic |-> TRUE, ok |-> FALSE, nonce |-> <<>>, data |-> <<>>]
        ELSE [panic |-> FALSE, ok |-> TRUE,
              nonce |-> SubSeq(dec.bytes, 1, NONCE_LEN),
              data |-> Drop(dec.bytes, NONCE_LEN)]

\* ------------------------------------------------------------------ inputs
Threads == 1..NumThreads

\* Keys handed to setup (MASTER_KEY starts as the empty vector).
SetupKeys == {<<1>>, <<2, 3>>}

\* The 12-byte values SystemRandom::fill may return (any of them, each time).
Nonces == {[i \in 1..NONCE_LEN |-> 0], [i \in 1..NONCE_LEN |-> (21 * i) % 256]}

\* Texts that no e returned: the empty string, "QUJD" (three bytes), "!!!!"
\* (not base64), sixteen symbols (twelve bytes: a nonce and nothing else),
\* twenty-four (a nonce and six bytes, less than a tag) and thirty-eight (a
\* nonce and sixteen bytes that are no tag).
EmptyToken == <<>>
ShortToken == <<81, 85, 74, 68>>
NotBase64 == <<33, 33, 33, 33>>
Truncated == {[i \in 1..16 |-> 65], [i \in 1..24 |-> 66]}
Garbage == [i \in 1..38 |-> 65]

BoundaryTokens == {EmptyToken, ShortToken, NotBase64, Garbage} \cup Truncated

\* The values sealed where tokens are tampered with.
TamperValues == {Str(<<97>>), Str(<<>>)}

\* ------------------------------------------------------------------- state
VARIABLES
    MASTER_KEY,   \* the Vec<u8> behind the mutex: its buffer and its length
    lock,         \* the mutex: 0 when free, else the thread holding the guard
    stack,        \* per thread, the frames of the calls in progress
    result,       \* per thread, what its last top-level call returned
    pool,         \* the tokens that top-level e calls returned (with history)
    budget,       \* top-level calls still to be made
    last_setup,   \* history: the argument of the setup that completed last
    bound         \* bound keys (key + INonceSequence) driven on their own

vars == <<MASTER_KEY, lock, stack, result, pool, budget, last_setup, bound>>

NoValue == Str(<<>>)
NoBase ==
    [id |-> 0, tok |-> <<>>, val |-> NoValue, keys |-> {}, okey |-> <<>>,
     nonces |-> <<>>]
NoOut == [ok |-> TRUE, tok |-> <<>>, val |-> NoValue, err |-> <<>>, stage |-> "none"]

NoResult ==
    [op |-> "none", ok |-> TRUE, panic |-> FALSE, tok |-> <<>>, val |-> NoValue,
     err |-> <<>>, stage |-> "none", key |-> <<>>, ty |-> "Str", keys |-> {},
     okey |-> <<>>, nonces |-> <<>>, src |-> "none", base |-> NoBase]

\* A call in progress.  op/pc say where it is; val, tok, key and ty are its
\* arguments; nonce, data, child and got its locals; out what it returns.
\* keys, okey, nonces, src and base are history: the keys the call and its
\* nested calls read, the key this call read, the nonces drawn, and where
\* the token given to d came from.  The stage of an error is history too:
\* the step of d (or e) that failed.
Frame(op, pc) ==
    [op |-> op, pc |-> pc, val |-> NoValue, tok |-> <<>>, key |-> <<>>,
     ty |-> "Str", nonce |-> <<>>, data |-> <<>>, child |-> <<>>, got |-> FALSE,
     out |-> NoOut, keys |-> {}, okey |-> <<>>, nonces |-> <<>>,
     src |-> "none", base |-> NoBase]

\* The master key as a reader sees it: key.as_slice().
KeySlice(cell) == Take(cell.buf, cell.len)

Top(t) == stack[t][Len(stack[t])]
Idle(t) == stack[t] = <<>>
At(t, op, pc) == ~Idle(t) /\ Top(t).op = op /\ Top(t).pc = pc
SetTop(t, f) == [stack EXCEPT ![t] = [@ EXCEPT ![Len(@)] = f]]
Push(t, f) == [stack EXCEPT ![t] = Append(@, f)]

\* Fault variant: a lock that never blocks
LockIgnored(l) == TRUE

\* Mutex::lock: blocks until the mutex is free.

CanLock(l) == l = 0

\* Fault variant: a guard that survives an error return
GuardKeptOnError(t, ok) == IF ok THEN 0 ELSE t

\* The MutexGuard is a local of setup / encrypt / decrypt: dropped when the
\* function returns, by Ok or by `?`.

GuardDrop(t, ok) == 0

Init ==
    /\ MASTER_KEY = [buf |-> <<>>, len |-> 0]
    /\ lock = 0
    /\ stack = [t \in Threads |-> <<>>]
    /\ result = [t \in Threads |-> NoResult]
    /\ pool = {}
    /\ budget = [setup |-> MaxSetups, seal |-> MaxSeals, unseal |-> MaxUnseals]
    /\ last_setup = <<>>
    /\ bound = <<>>

\* ------------------------------------------------------------------- setup
\* *MASTER_KEY.lock().unwrap() = master_key;   -- take the guard
setup_Lock(t, k) ==
    /\ Idle(t) /\ budget.setup > 0
    /\ CanLock(lock)
    /\ lock' = t
    /\ stack' = Push(t, [Frame("setup", "buf") EXCEPT !.key = k])
    /\ budget' = [budget EXCEPT !.setup = @ - 1]
    /\ UNCHANGED <<MASTER_KEY, result, pool, last_setup, bound>>

\* Fault variant: a store that extends the old key
StoreAppend(cell, k) == [cell EXCEPT !.buf = @ \o k]

\* The assignment moves the new Vec over the old one: first its buffer ...
StoreBuf(cell, k) == [cell EXCEPT !.buf = k]

setup_WriteBuf(t) ==
    /\ At(t, "setup", "buf")
    /\ MASTER_KEY' = StoreBuf(MASTER_KEY, Top(t).key)
    /\ stack' = SetTop(t, [Top(t) EXCEPT !.pc = "len"])
    /\ UNCHANGED <<lock, result, pool, budget, last_setup, bound>>

\* ... then its length; the guard is dropped and setup returns.
setup_WriteLen(t) ==
    /\ At(t, "setup", "len")
    /\ MASTER_KEY' = [MASTER_KEY EXCEPT !.len = Len(MASTER_KEY.buf)]
    /\ lock' = GuardDrop(t, TRUE)
    /\ stack' = [stack EXCEPT ![t] = <<>>]
    /\ result' = [result EXCEPT ![t] = [NoResult EXCEPT !.op = "setup", !.key = Top(t).key]]
    /\ last_setup' = Top(t).key
    /\ UNCHANGED <<pool, budget, bound>>

\* ------------------------------------------------------- call and return
Ok(tok, val) == [ok |-> TRUE, tok |-> tok, val |-> val, err |-> <<>>, stage |-> "none"]
Err(stage, e) == [ok |-> FALSE, tok |-> <<>>, val |-> NoValue, err |-> e, stage |-> stage]

\* What a finished top-level call leaves with its caller (a tampered token
\* is not kept: src and base say what it was made from).
ResultOf(fr, out) ==
    [op |-> fr.op, ok |-> out.ok, panic |-> FALSE,
     tok |-> IF fr.op = "e" THEN out.tok
             ELSE IF fr.src \in {"pool", "boundary"} THEN fr.tok ELSE <<>>,
     val |-> IF fr.op = "e" THEN fr.val ELSE out.val,
     err |-> out.err, stage |-> out.stage, key |-> <<>>, ty |-> fr.ty, keys |-> fr.keys,
     okey |-> fr.okey, nonces |-> fr.nonces, src |-> fr.src, base |-> fr.base]

\* serialize() / deserialize(), lines 58 and 65: the error of a nested e / d
\* becomes a serde custom error, which ends the outer to_string / from_str.
Custom(e) == <<"Json", "custom">> \o e

\* The frame `fr` on top of t's stack returns `out`: to the caller of the
\* top-level call, or to the frame below, which was waiting for its sealed
\* field: an e frame then completes its to_string (line 74).
Return(t, fr, out) ==
    IF Len(stack[t]) = 1
    THEN /\ stack' = [stack EXCEPT ![t] = <<>>]
         /\ result' = [result EXCEPT ![t] = ResultOf(fr, out)]
         /\ pool' = IF fr.op = "e" /\ out.ok
                    THEN pool \cup {[id |-> Cardinality(pool) + 1, tok |-> out.tok,
                                     val |-> fr.val, keys |-> fr.keys,
                                     okey |-> fr.okey, nonces |-> fr.nonces]}
                    ELSE pool
    ELSE LET par == stack[t][Len(stack[t]) - 1]
             par2 == IF ~out.ok
                     THEN [par EXCEPT !.pc = "ret", !.out = Err("nested", Custom(out.err)),
                                      !.keys = @ \cup fr.keys]
                     ELSE IF fr.op = "e"
                     THEN [par EXCEPT !.child = out.tok, !.got = TRUE,
                                      !.data = to_string(par.val, out.tok),
                                      !.pc = "lock",
                                      !.keys = @ \cup fr.keys,
                                      !.nonces = @ \o fr.nonces]
                     ELSE [par EXCEPT !.child = out.val.f, !.got = TRUE,
                                      !.keys = @ \cup fr.keys]
         IN  /\ stack' = [stack EXCEPT ![t] =
                              Append(SubSeq(@, 1, Len(@) - 2), par2)]
             /\ UNCHANGED <<result, pool>>

\* A panic unwinds every frame of the thread.
Panic(t, root) ==
    /\ stack' = [stack EXCEPT ![t] = <<>>]
    /\ result' = [result EXCEPT ![t] =
                      [ResultOf(root, Err("decode", <<"panic">>)) EXCEPT !.panic = TRUE]]
    /\ UNCHANGED pool

\* ----------------------------------------------------------------------- e
\* generate_random_nonce(): whatever the system's random source returns.
generate_random_nonce == Nonces

\* e, lines 73-74: the frame of a call of e(source), its nonce drawn.  A
\* String is serialized at once; a Rec first needs the token of its sealed
\* field.
EFrame(v, nonce) ==
    [Frame("e", IF v.ty = "Str" THEN "lock" ELSE "ser") EXCEPT
         !.val = v, !.ty = v.ty, !.nonce = nonce, !.nonces = <<nonce>>,
         !.data = IF v.ty = "Str" THEN to_string(v, <<>>) ELSE <<>>]

e_Begin(t, v, nonce) ==
    /\ Idle(t) /\ budget.seal > 0
    /\ stack' = Push(t, EFrame(v, nonce))
    /\ budget' = [budget EXCEPT !.seal = @ - 1]
    /\ UNCHANGED <<MASTER_KEY, lock, result, pool, last_setup, bound>>

\* e, line 74: serde_json::to_string(&source) reaches the sealed field and
\* calls serialize(), hence e, for it.
e_Serialize(t) ==
    /\ At(t, "e", "ser")
    /\ \E nonce \in generate_random_nonce :
           stack' = Push(t, EFrame(Str(Top(t).val.f), nonce))
    /\ UNCHANGED <<MASTER_KEY, lock, result, pool, budget, last_setup, bound>>

\* encrypt, line 91: MASTER_KEY.lock().unwrap()
encrypt_Lock(t) ==
    /\ At(t, "e", "lock")
    /\ CanLock(lock)
    /\ lock' = t
    /\ stack' = SetTop(t, [Top(t) EXCEPT !.pc = "seal"])
    /\ UNCHANGED <<MASTER_KEY, result, pool, budget, last_setup, bound>>

\* encrypt, lines 92-98: derive, seal, return (the guard goes with it).
encrypt_Seal(t) ==
    /\ At(t, "e", "seal")
    /\ LET fr == Top(t)
           key == KeySlice(MASTER_KEY)
           r == encrypt(fr.data, fr.nonce, key)
       IN  /\ lock' = GuardDrop(t, r.ok)
           /\ stack' = SetTop(t,
                  IF r.ok
                  THEN [fr EXCEPT !.data = r.data, !.pc = "frame",
                                  !.okey = key, !.keys = @ \cup {key}]
                  ELSE [fr EXCEPT !.pc = "ret", !.out = Err("encrypt", r.err),
                                  !.okey = key, !.keys = @ \cup {key}])
    /\ UNCHANGED <<MASTER_KEY, result, pool, budget, last_setup, bound>>

\* e, lines 76-78 (or the `?` of line 74 or 75): frame, encode, return.
e_Return(t) ==
    /\ ~Idle(t) /\ Top(t).op = "e" /\ Top(t).pc \in {"frame", "ret"}
    /\ LET fr == Top(t)
       IN  Return(t, fr, IF fr.pc = "frame"
                         THEN Ok(EncodeToken(fr.nonce, fr.data), NoValue)
                         ELSE fr.out)
    /\ UNCHANGED <<MASTER_KEY, lock, budget, last_setup, bound>>

\* ----------------------------------------------------------------------- d
\* d, lines 82-84: the frame of a call of d(source) whose token decoded.
DFrame(tok, dt, ty, src, base) ==
    [Frame("d", "lock") EXCEPT !.tok = tok, !.ty = ty, !.nonce = dt.nonce,
                               !.data = dt.data, !.src = src, !.base = base]

d_Begin(t, tok, ty, src, base) ==
    /\ Idle(t) /\ budget.unseal > 0
    /\ budget' = [budget EXCEPT !.unseal = @ - 1]
    /\ LET dt == DecodeToken(tok)
           fr == [Frame("d", "ret") EXCEPT !.tok = tok, !.ty = ty,
                                           !.src = src, !.base = base]
       IN  IF dt.panic THEN Panic(t, fr)
           ELSE IF ~dt.ok
           THEN /\ result' = [result EXCEPT ![t] = ResultOf(fr, Err("decode", <<"DecodeError">>))]
                /\ UNCHANGED <<stack, pool>>
           ELSE /\ stack' = Push(t, DFrame(tok, dt, ty, src, base))
                /\ UNCHANGED <<result, pool>>
    /\ UNCHANGED <<MASTER_KEY, lock, last_setup, bound>>

\* d of a token that e returned.
d_Sealed(t) ==
    \E p \in pool, ty \in Types : d_Begin(t, p.tok, ty, "pool", p)

\* d of a text that is no token.
d_Boundary(t) ==
    \E tok \in BoundaryTokens : d_Begin(t, tok, "Str", "boundary", NoBase)

\* decrypt, line 102: MASTER_KEY.lock().unwrap()
decrypt_Lock(t) ==
    /\ At(t, "d", "lock")
    /\ CanLock(lock)
    /\ lock' = t
    /\ stack' = SetTop(t, [Top(t) EXCEPT !.pc = "open"])
    /\ UNCHANGED <<MASTER_KEY, result, pool, budget, last_setup, bound>>

\* decrypt, lines 103-110: derive, open, strip the tag, return.
decrypt_Open(t) ==
    /\ At(t, "d", "open")
    /\ LET fr == Top(t)
           key == KeySlice(MASTER_KEY)
           r == decrypt(fr.data, fr.nonce, key)
       IN  /\ lock' = GuardDrop(t, r.ok)
           /\ stack' = SetTop(t,
                  IF r.ok
                  THEN [fr EXCEPT !.data = r.data, !.pc = "parse",
                                  !.okey = key, !.keys = @ \cup {key}]
                  ELSE [fr EXCEPT !.pc = "ret", !.out = Err("decrypt", r.err),
                                  !.okey = key, !.keys = @ \cup {key}])
    /\ UNCHANGED <<MASTER_KEY, result, pool, budget, last_setup, bound>>

\* d, lines 86-87: from_utf8, then serde_json::from_str into the target
\* type, and return.  For a Rec, from_str reaches the sealed field and calls
\* deserialize(), hence d, on its string; the struct is built and returned
\* when that call has returned.
d_Parse(t) ==
    /\ At(t, "d", "parse")
    /\ LET fr == Top(t)
           rec == ParseRec(fr.data)
           str == ParseString(fr.data)
           dt == DecodeToken(rec.f)
       IN  IF ~IsUtf8(fr.data) THEN Return(t, fr, Err("parse", <<"Utf8Error">>))
           ELSE IF fr.ty = "Str"
           THEN Return(t, fr, IF str.ok THEN Ok(<<>>, Str(str.s))
                              ELSE Err("parse", <<"Json">>))
           ELSE IF ~rec.ok THEN Return(t, fr, Err("parse", <<"Json">>))
           ELSE IF fr.got THEN Return(t, fr, Ok(<<>>, Rec(fr.child, rec.p)))
           ELSE IF dt.panic THEN Panic(t, stack[t][1])
           ELSE IF ~dt.ok
           THEN Return(t, fr, Err("nested", Custom(<<"DecodeError">>)))
           ELSE /\ stack' = Push(t, DFrame(rec.f, dt, "Str", "nested", NoBase))
                /\ UNCHANGED <<result, pool>>
    /\ UNCHANGED <<MASTER_KEY, lock, budget, last_setup, bound>>

\* d returns an error (the `?` of line 85, or of line 87 after a nested d
\* failed).
d_Return(t) ==
    /\ At(t, "d", "ret")
    /\ Return(t, Top(t), Top(t).out)
    /\ UNCHANGED <<MASTER_KEY, lock, budget, last_setup, bound>>

\* ------------------------------------------------------------- tampering
\* The text with bit b of its i-th byte flipped.
FlipBit(text, i, b) ==
    [text EXCEPT ![i] = IF (@ \div Pow2(b)) % 2 = 1 THEN @ - Pow2(b) ELSE @ + Pow2(b)]

\* d of a sealed token with one bit flipped.
d_Flipped(t) ==
    \E p \in pool : \E i \in 1..Len(p.tok), b \in 0..7 :
        d_Begin(t, FlipBit(p.tok, i, b), p.val.ty, "flip", p)

\* d of a sealed token cut short.
d_Truncated(t) ==
    \E p \in pool : \E n \in 0..(Len(p.tok) - 1) :
        d_Begin(t, Take(p.tok, n), p.val.ty, "trunc", p)

\* ------------------------------------------------- bound keys on their own
\* A SealingKey / OpeningKey made by prepare_key and used more than once,
\* which encrypt and decrypt never do.  outs lists what each use returned.
BoundData == <<34, 97, 34>>

bound_New(key, nonce) ==
    /\ Len(bound) < MaxBound
    /\ bound' = Append(bound, [bk |-> prepare_key(key, nonce), nonce |-> nonce,
                               outs |-> <<>>])
    /\ UNCHANGED <<MASTER_KEY, lock, stack, result, pool, budget, last_setup>>

Use(i, r, kind) ==
    /\ bound' = [bound EXCEPT ![i] =
                     [@ EXCEPT !.bk = r.bk,
                               !.outs = Append(@, [kind |-> kind, ok |-> r.ok,
                                                   data |-> r.data])]]
    /\ UNCHANGED <<MASTER_KEY, lock, stack, result, pool, budget, last_setup>>

bound_Advance(i) ==
    /\ i \in 1..Len(bound) /\ Len(bound[i].outs) < MaxAdvance
    /\ LET a == advance(bound[i].bk.seq)
       IN  Use(i, [ok |-> a.ok, data |-> a.nonce,
                   bk |-> [bound[i].bk EXCEPT !.seq = a.seq]], "advance")

bound_Seal(i) ==
    /\ i \in 1..Len(bound) /\ Len(bound[i].outs) < MaxAdvance
    /\ Use(i, seal_in_place_append_tag(bound[i].bk, BoundData), "seal")

bound_Open(i) ==
    /\ i \in 1..Len(bound) /\ Len(bound[i].outs) < MaxAdvance
    /\ Use(i, open_in_place(bound[i].bk,
                            GcmSeal(bound[i].bk.key, bound[i].nonce, BoundData)), "open")

\* ------------------------------------------------------------ specifications
Next ==
    \E t \in Threads :
        \/ \E k \in SetupKeys : setup_Lock(t, k)
        \/ setup_WriteBuf(t)
        \/ setup_WriteLen(t)
        \/ \E v \in Values, nonce \in generate_random_nonce : e_Begin(t, v, nonce)
        \/ e_Serialize(t)
        \/ encrypt_Lock(t)
        \/ encrypt_Seal(t)
        \/ e_Return(t)
        \/ d_Sealed(t)
        \/ d_Boundary(t)
        \/ decrypt_Lock(t)
        \/ decrypt_Open(t)
        \/ d_Parse(t)
        \/ d_Return(t)

Spec == Init /\ [][Next]_vars

\* A key already installed by a completed setup (or never set), and no
\* further setup.
InitInstalled(seals, unseals) ==
    /\ \E k \in SetupKeys \cup {<<>>} :
           /\ MASTER_KEY = [buf |-> k, len |-> Len(k)]
           /\ last_setup = k
    /\ lock = 0
    /\ stack = [t \in Threads |-> <<>>]
    /\ result = [t \in Threads |-> NoResult]
    /\ pool = {}
    /\ budget = [setup |-> 0, seal |-> seals, unseal |-> unseals]
    /\ bound = <<>>

\* Several seals under one key.
NextSeals ==
    \E t \in Threads :
        \/ \E v \in Values, nonce \in generate_random_nonce : e_Begin(t, v, nonce)
        \/ e_Serialize(t)
        \/ encrypt_Lock(t)
        \/ encrypt_Seal(t)
        \/ e_Return(t)
        \/ d_Sealed(t)
        \/ decrypt_Lock(t)
        \/ decrypt_Open(t)
        \/ d_Parse(t)

SpecSeals == InitInstalled(SealsSeals, SealsUnseals) /\ [][NextSeals]_vars

\* Sealed tokens tampered with before they are unsealed.
NextTamper ==
    \E t \in Threads :
        \/ \E v \in TamperValues, nonce \in generate_random_nonce : e_Begin(t, v, nonce)
        \/ encrypt_Lock(t)
        \/ encrypt_Seal(t)
        \/ e_Return(t)
        \/ d_Sealed(t)
        \/ d_Flipped(t)
        \/ d_Truncated(t)
        \/ decrypt_Lock(t)
        \/ decrypt_Open(t)
        \/ d_Parse(t)
        \/ d_Return(t)

SpecTamper == InitInstalled(TamperSeals, TamperUnseals) /\ [][NextTamper]_vars

\* Bound keys used repeatedly.
NextNonce ==
    \/ \E k \in SetupKeys \cup {<<>>}, nonce \in Nonces : bound_New(k, nonce)
    \/ \E i \in 1..MaxBound : bound_Advance(i)
    \/ \E i \in 1..MaxBound : bound_Seal(i)
    \/ \E i \in 1..MaxBound : bound_Open(i)

SpecNonce == Init /\ [][NextNonce]_vars

\* ------------------------------------------------------------------ claims
DecryptionFailure == <<"DecryptionError", "Unspecified">>
MalformedToken == <<"DecodeError">>

\* Whether thread t is between taking the guard and dropping it.
InCriticalSection(t) == ~Idle(t) /\ Top(t).pc \in {"buf", "len", "seal", "open"}

\* The leading NONCE_LEN bytes of a token.
NonceOf(tok) == Take(Base64Decode(tok).bytes, NONCE_LEN)

\* C1 (round trip): every e returns a token, and a d of a sealed token into
\* the type that was sealed, where every key read by the d and by the e that
\* made the token (nested calls included) is one and the same key, returns
\* Ok with a value equal to the one sealed.
C1_RoundTrip ==
    \A t \in Threads :
        LET r == result[t]
        IN  /\ r.op = "e" => r.ok
            /\ (/\ r.op = "d" /\ r.src = "pool"
                /\ r.ty = r.base.val.ty
                /\ Cardinality(r.base.keys \cup r.keys) = 1)
               => (r.ok /\ ~r.panic /\ r.val = r.base.val)

\* A record with a sealed field, sealed and unsealed under the key <<2, 3>>.
C1_Witness ==
    \E t \in Threads :
        /\ result[t].op = "d" /\ result[t].src = "pool" /\ result[t].ok
        /\ result[t].val = Rec(<<97>>, <<98>>)
        /\ result[t].base.keys = {<<2, 3>>} /\ result[t].keys = {<<2, 3>>}

\* C2 (boundary tokens): d of the empty string, of a string that decodes to
\* fewer than NONCE_LEN bytes, and of a string that is not base64, returns
\* the malformed-token error and does not panic.
C2_BoundaryMalformed ==
    \A t \in Threads :
        LET r == result[t]
        IN  (r.op = "d" /\ r.src = "boundary"
             /\ r.tok \in {EmptyToken, ShortToken, NotBase64})
            => (~r.panic /\ ~r.ok /\ r.err = MalformedToken)

\* C3 (tamper detection): d of a sealed token with any single bit flipped,
\* under the key it was sealed with, returns a decryption or malformed-token
\* error: it never panics, never gets past the tag check, never returns Ok.
C3_TamperDetected ==
    \A t \in Threads :
        LET r == result[t]
        IN  /\ (r.op = "d" /\ r.src = "flip")
               => (~r.ok /\ ~r.panic /\ r.err \in {MalformedToken, DecryptionFailure})
            /\ (~Idle(t) /\ Top(t).src = "flip") => Top(t).pc # "parse"

\* A flipped token of a value sealed under <<2, 3>> was refused by the tag.
C3_Witness ==
    \E t \in Threads :
        /\ result[t].op = "d" /\ result[t].src = "flip"
        /\ result[t].err = DecryptionFailure /\ result[t].base.okey = <<2, 3>>

\* C4 (key mismatch): d of a token sealed (all its layers) under one key K1,
\* in which some decrypt read a key other than K1 (the key current when it
\* ran), returns an error from that decrypt and never a value.
C4_KeyMismatch ==
    \A t \in Threads :
        LET r == result[t]
        IN  (/\ r.op = "d" /\ r.src = "pool"
             /\ Cardinality(r.base.keys) = 1
             /\ ~(r.keys \subseteq r.base.keys))
            => (~r.ok /\ ~r.panic /\ r.stage \in {"decrypt", "nested"})

\* setup(<<1>>); seal; setup(<<2, 3>>); unseal: refused.
C4_Witness ==
    \E t \in Threads :
        /\ result[t].op = "d" /\ result[t].src = "pool"
        /\ result[t].base.keys = {<<1>>} /\ result[t].okey = <<2, 3>>
        /\ last_setup = <<2, 3>>
        /\ ~result[t].ok /\ result[t].err = DecryptionFailure

\* C5 (last writer wins): whenever no setup is between taking the guard and
\* dropping it, the stored key is exactly the argument of the setup that
\* completed last (empty if none did), nothing of an earlier key with it;
\* this is the key an encrypt or decrypt holding the guard reads.
C5_LastWriterWins ==
    /\ (\A t \in Threads : ~At(t, "setup", "buf") /\ ~At(t, "setup", "len"))
       => MASTER_KEY = [buf |-> last_setup, len |-> Len(last_setup)]
    /\ \A t \in Threads :
           (At(t, "e", "seal") \/ At(t, "d", "open"))
           => KeySlice(MASTER_KEY) = last_setup

\* setup(<<2, 3>>) completed, then setup(<<1>>), and an encrypt is about to
\* read the key.
C5_Witness ==
    /\ budget.setup = 0 /\ last_setup = <<1>>
    /\ \E t \in Threads : result[t].op = "setup" /\ result[t].key = <<2, 3>>
    /\ \E t \in Threads : At(t, "e", "seal")

\* C6 (mutual exclusion): at most one thread is between taking the guard and
\* dropping it, the mutex names exactly that thread, and every key that an
\* encrypt or decrypt read is the initial empty key or one setup's argument
\* whole.
C6_MutualExclusion ==
    /\ \A t1, t2 \in Threads :
           (InCriticalSection(t1) /\ InCriticalSection(t2)) => t1 = t2
    /\ \A t \in Threads : InCriticalSection(t) <=> lock = t
    /\ \A t \in Threads :
           /\ result[t].keys \subseteq SetupKeys \cup {<<>>}
           /\ \A i \in 1..Len(stack[t]) :
                  stack[t][i].keys \subseteq SetupKeys \cup {<<>>}
    /\ \A p \in pool : p.keys \subseteq SetupKeys \cup {<<>>}

\* A setup has written the buffer and not yet the length while another
\* thread's encrypt waits for the lock.
C6_Witness ==
    \E t1, t2 \in Threads :
        /\ At(t1, "setup", "len") /\ MASTER_KEY.len # Len(MASTER_KEY.buf)
        /\ At(t2, "e", "lock")

\* C7 (undifferentiated failure): whatever makes the decryption step of a d
\* fail (a wrong key, a bad tag, an input shorter than a tag), the error the
\* d returns is one and the same value.
C7_Undifferentiated ==
    \A t \in Threads :
        /\ (result[t].op = "d" /\ result[t].stage = "decrypt")
           => result[t].err = DecryptionFailure
        /\ (At(t, "d", "ret") /\ Top(t).out.stage = "decrypt")
           => Top(t).out.err = DecryptionFailure

\* A token cut down to less than a tag was refused by decrypt.
C7_Witness ==
    \E t \in Threads :
        /\ result[t].op = "d" /\ result[t].tok \in Truncated
        /\ result[t].stage = "decrypt" /\ result[t].err = DecryptionFailure

\* C8 as claimed: no two seal calls use the same nonce, and their tokens
\* differ.
C8_NoncesNeverRepeat ==
    \A p, q \in pool :
        p.id # q.id => (NonceOf(p.tok) # NonceOf(q.tok) /\ p.tok # q.tok)

\* C8 (fresh nonce, amended): every token starts with the nonce its e drew;
\* two seals of the same value under the same key whose nonces differ return
\* different tokens; and every sealed token unseals to the value sealed.
C8_FreshNonce ==
    /\ \A p \in pool : NonceOf(p.tok) = p.nonces[1]
    /\ \A p, q \in pool :
           (p.id # q.id /\ p.val = q.val /\ p.keys = q.keys /\ p.nonces # q.nonces)
           => p.tok # q.tok
    /\ \A t \in Threads :
           LET r == result[t]
           IN  (r.op = "d" /\ r.src = "pool" /\ r.ty = r.base.val.ty)
               => (r.ok /\ r.val = r.base.val)

\* Two tokens of the same record with different nonces, the second unsealed.
C8_Witness ==
    \E p, q \in pool :
        /\ p.id = 1 /\ q.id = 2 /\ p.val = q.val /\ p.val.ty = "Rec"
        /\ p.nonces[1] # q.nonces[1] /\ p.tok # q.tok
        /\ \E t \in Threads :
               result[t].op = "d" /\ result[t].base = q /\ result[t].val = q.val

\* C9 (single-use nonce sequence): the first use of a bound key succeeds with
\* the nonce it was built from (advance returns it, seal and open work under
\* it) and empties the sequence; every later use fails and yields no nonce,
\* no ciphertext and no plaintext.
C9_SingleUse ==
    \A i \in 1..Len(bound) :
        LET b == bound[i]
            sealed == GcmSeal(b.bk.key, b.nonce, BoundData)
        IN  /\ (b.outs = <<>>) <=> (b.bk.seq = <<b.nonce>>)
            /\ (b.outs # <<>>) <=> (b.bk.seq = <<>>)
            /\ \A k \in 1..Len(b.outs) :
                   LET o == b.outs[k]
                   IN  IF k = 1
                       THEN /\ o.ok
                            /\ o.kind = "advance" => o.data = b.nonce
                            /\ o.kind = "seal" => o.data = sealed
                            /\ o.kind = "open" => Take(o.data, Len(BoundData)) = BoundData
                       ELSE /\ ~o.ok
                            /\ o.kind = "advance" => o.data = <<>>
                            /\ o.kind = "seal" => o.data = BoundData
                            /\ o.kind = "open" => o.data = sealed

\* A second seal on a bound key that has sealed once.
C9_Witness ==
    \E i \in 1..Len(bound) :
        /\ Len(bound[i].outs) = 2
        /\ bound[i].outs[1].kind = "seal" /\ bound[i].outs[1].ok
        /\ bound[i].outs[2].kind = "seal" /\ ~bound[i].outs[2].ok

\* C10 (lock discipline): the mutex is held only by a thread whose innermost
\* call is inside setup, encrypt or decrypt; every outer call of a nested
\* e / d is in to_string / from_str; no thread waits for a lock it holds; and
\* whenever calls are in progress one of them can take a step.
C10_LockDiscipline ==
    /\ \A t \in Threads :
           /\ lock = t => InCriticalSection(t)
           /\ \A i \in 1..(Len(stack[t]) - 1) : stack[t][i].pc \in {"ser", "parse"}
           /\ (~Idle(t) /\ Top(t).pc = "lock") => lock # t
    /\ (\E t \in Threads : ~Idle(t))
       => \E t \in Threads : ~Idle(t) /\ (Top(t).pc # "lock" \/ lock = 0)

\* The e of a sealed field holds the lock while the e of the record that
\* holds the field waits in to_string.
C10_Witness ==
    \E t \in Threads :
        /\ Len(stack[t]) = 2 /\ lock = t
        /\ Top(t).op = "e" /\ stack[t][1].pc = "ser"

====
